---- MODULE Spec2Model ----
(***************************************************************************)
(* Model of safari-cookie-json.c: printCookiesFromMmap(length, data), the  *)
(* decoder of Apple's binary cookie container, and the JSON it streams to  *)
(* stdout while decoding.                                                  *)
(*                                                                         *)
(* A uint32_t is the pair <<hi, lo>> of its 16-bit halves, because the     *)
(* model checker's integers are 32-bit signed and the code's values reach  *)
(* 2^32 - 1.  A pointer into the buffer is the index of the byte it points *)
(* at (data is index 0); pointers are 64-bit in the build, so adding an    *)
(* unsigned 32-bit offset never wraps.                                     *)
(***************************************************************************)
EXTENDS Integers, Sequences, FiniteSets, TLC

\* ------------------------------------------------------------------------
\* Bounds of the explored input space
\* ------------------------------------------------------------------------
MaxPages == 2
MaxCookies == 2
MaxTotal == 3

\* ------------------------------------------------------------------------
\* Program constants
\* ------------------------------------------------------------------------
EXIT_CODE_OK == 0
EXIT_CODE_BAD_EOF == 7
EXIT_CODE_BAD_MAGIC == 8
EXIT_CODE_BAD_PARSE == 9

BINARY_COOKIE_MAGIC == <<99, 111, 111, 107>>
COOKIE_PAGE_TAG == <<0, 0, 1, 0>>
COOKIE_PAGE_HEADER_END == <<0, 0, 0, 0>>
BINARY_COOKIE_FOOTER == <<7, 23, 32, 5>>

\* sizeof(uint32_t)
SizeofU32 == 4
\* 10 * sizeof(uint32_t) + 2 * sizeof(uint64_t): the mandatory cookie fields
CookieHeaderSize == 10 * 4 + 2 * 8

\* ------------------------------------------------------------------------
\* Reading the buffer
\* ------------------------------------------------------------------------
\* d[p + 1] is the byte the pointer data + p points at.
Slice(d, p, n) == [i \in 1..n |-> d[p + i]]

\* A comparison that stops one byte early.
memcmpEqFirstThree(d, p, magic) == Slice(d, p, 3) = SubSeq(magic, 1, 3)

\* memcmp(data + p, magic, sizeof magic) == 0
memcmpEq(d, p, magic) == Slice(d, p, Len(magic)) = magic

read32Hi(d, p) == <<d[p + 1] * 256 + d[p + 2], d[p + 3] * 256 + d[p + 4]>>

read32Lo(d, p) == <<d[p + 4] * 256 + d[p + 3], d[p + 2] * 256 + d[p + 1]>>

\* The eight bytes of a little-endian 64-bit word, least significant first.
read64Lo(d, p) == Slice(d, p, 8)

\* The bit pattern reinterpreted as a double; kept as its eight bytes.
readDouble(d, p) == read64Lo(d, p)

\* Every offset of 2^24 or more lies past the end of every buffer explored
\* here, so all of them are represented by the one value Far; the sums the
\* code forms from at most three such offsets stay exact enough to compare
\* against pointers inside the buffer, which is all the code does with them.
Far == 256 * 65536
Offset(u) == IF u[1] >= 256 THEN Far ELSE u[1] * 65536 + u[2]

Max(a, b) == IF a >= b THEN a ELSE b

\* ------------------------------------------------------------------------
\* JSON emission.  stdout is a sequence of tokens [k, b]: a punctuation
\* token has its character as k; a "string" token carries the escaped
\* characters written between the quotes; an "int" token the characters
\* printf("%d") writes; a "double" token the eight bytes of the value
\* printf("%.17lg") formats.
\* ------------------------------------------------------------------------
Punct(c) == [k |-> c, b |-> <<>>]

emitJsonBeginArray == <<Punct("[")>>
emitJsonBeginObject == <<Punct("{")>>
emitJsonEndArray == <<Punct("]")>>
emitJsonEndObject == <<Punct("}")>>
emitJsonNameSeparator == <<Punct(":")>>
emitJsonValueSeparator == <<Punct(",")>>

\* Division of an unsigned 32-bit value by ten, on its halves.
DivMod10(u) ==
    LET t == (u[1] % 10) * 65536 + u[2]
    IN  [q |-> <<u[1] \div 10, t \div 10>>, r |-> t % 10]

\* The decimal digits of an unsigned 32-bit value.
RECURSIVE DecDigits(_)
DecDigits(u) ==
    IF u[1] = 0 /\ u[2] < 10
    THEN <<48 + u[2]>>
    ELSE DecDigits(DivMod10(u).q) \o <<48 + DivMod10(u).r>>

\* Two's complement negation: the magnitude of a negative int.
Neg32(u) ==
    <<(65535 - u[1] + (IF u[2] = 0 THEN 1 ELSE 0)) % 65536, (65536 - u[2]) % 65536>>

\* emitJsonNumberInt(int value): the caller's uint32_t arrives as an int with
\* the same 32 bits; "%d" prints it signed.
emitJsonNumberInt(value) ==
    <<[k |-> "int",
       b |-> IF value[1] >= 32768 THEN <<45>> \o DecDigits(Neg32(value))
                                  ELSE DecDigits(value)]>>

emitJsonNumberDouble(value) == <<[k |-> "double", b |-> value]>>

HexDigit(n) == IF n < 10 THEN 48 + n ELSE 55 + n

emitJsonCharEscapedPretty(value) == <<92, value>>

\* printf("\\u%04X", value) of a uint8_t
emitJsonCharEscapedUgly(value) ==
    <<92, 117, 48, 48, HexDigit(value \div 16), HexDigit(value % 16)>>

\* The body of the switch in emitJsonString.
EscapeByte(byte) ==
    CASE byte = 34 -> emitJsonCharEscapedPretty(34)
      [] byte = 92 -> emitJsonCharEscapedPretty(92)
      [] byte = 8  -> emitJsonCharEscapedPretty(98)
      [] byte = 12 -> emitJsonCharEscapedPretty(102)
      [] byte = 10 -> emitJsonCharEscapedPretty(110)
      [] byte = 13 -> emitJsonCharEscapedPretty(114)
      [] byte = 9  -> emitJsonCharEscapedPretty(116)
      [] OTHER     -> IF byte < 32 THEN emitJsonCharEscapedUgly(byte) ELSE <<byte>>

\* for (cursor = value; *cursor; ++cursor): the number of bytes the loop
\* visits before the byte that is zero.  mem always holds a zero at or after p.
RECURSIVE ScanLen(_, _)
ScanLen(mem, p) == IF mem[p + 1] = 0 THEN 0 ELSE 1 + ScanLen(mem, p + 1)

RECURSIVE EscapeAll(_, _, _)
EscapeAll(mem, p, n) ==
    IF n = 0 THEN <<>> ELSE EscapeByte(mem[p + 1]) \o EscapeAll(mem, p + 1, n - 1)

\* emitJsonString(value) with value == mem + p
emitJsonString(mem, p) ==
    <<[k |-> "string", b |-> EscapeAll(mem, p, ScanLen(mem, p))]>>

\* The string literals of the program, as the zero-terminated arrays they are.
LitCookies == <<99, 111, 111, 107, 105, 101, 115, 0>>
LitVersion == <<118, 101, 114, 115, 105, 111, 110, 0>>
LitFlags == <<102, 108, 97, 103, 115, 0>>
LitDomain == <<100, 111, 109, 97, 105, 110, 0>>
LitName == <<110, 97, 109, 101, 0>>
LitPath == <<112, 97, 116, 104, 0>>
LitValue == <<118, 97, 108, 117, 101, 0>>
LitComment == <<99, 111, 109, 109, 101, 110, 116, 0>>
LitCommentUrl == <<99, 111, 109, 109, 101, 110, 116, 85, 114, 108, 0>>
LitExpiry == <<101, 120, 112, 105, 114, 121, 0>>
LitCreation == <<99, 114, 101, 97, 116, 105, 111, 110, 0>>

emitJsonNamedValueInt(name, value) ==
    emitJsonString(name, 0) \o emitJsonNameSeparator \o emitJsonNumberInt(value)

emitJsonSeparatedNamedValueInt(name, value) ==
    emitJsonValueSeparator \o emitJsonNamedValueInt(name, value)

emitJsonSeparatedNamedValueDouble(name, value) ==
    emitJsonValueSeparator \o emitJsonString(name, 0) \o emitJsonNameSeparator
        \o emitJsonNumberDouble(value)

\* An emitter that writes an absent field as null instead of omitting it.
emitJsonOptionalSeparatedNamedValueStringOrNull(present, name, mem, p) ==
    emitJsonValueSeparator \o emitJsonString(name, 0) \o emitJsonNameSeparator
        \o (IF present # <<0, 0>> THEN emitJsonString(mem, p) ELSE <<[k |-> "null", b |-> <<>>]>>)

\* present is the uint32_t offset converted to int: non-zero exactly when the
\* offset is.
emitJsonOptionalSeparatedNamedValueString(present, name, mem, p) ==
    IF present # <<0, 0>>
    THEN emitJsonValueSeparator \o emitJsonString(name, 0) \o emitJsonNameSeparator
             \o emitJsonString(mem, p)
    ELSE <<>>

\* ------------------------------------------------------------------------
\* Input buffers.  A file is laid out the way the decoder reads it: the
\* big-endian header and page-size table, the pages (tag, little-endian
\* cookie count and offset table, terminator, cookie records), the
\* big-endian checksum, the footer, the property-list size and the list.
\* ------------------------------------------------------------------------
BE32(n) == <<(n \div 16777216) % 256, (n \div 65536) % 256, (n \div 256) % 256, n % 256>>
LE32(n) == <<n % 256, (n \div 256) % 256, (n \div 65536) % 256, (n \div 16777216) % 256>>

RECURSIVE Flatten(_)
Flatten(ss) == IF ss = <<>> THEN <<>> ELSE Head(ss) \o Flatten(Tail(ss))

Absent == [kind |-> "absent", s |-> <<>>]
Str(s) == [kind |-> "str", s |-> s]
\* A field whose offset is the record size: accepted by the range check.
AtEnd == [kind |-> "end", s |-> <<>>]

\* The cookies files are built from.  The first is the cookie of the spec's
\* concrete scenario; the second has a path whose offset equals the record
\* size; the third has every field present, characters that need escaping
\* and the top bit set in version and flags.
Shapes ==
    << [version |-> <<1, 0, 0, 0>>, flags |-> <<0, 0, 0, 0>>,
        fields |-> <<Str(<<120, 46, 99, 111, 109>>), Str(<<97>>), Absent,
                     Str(<<98>>), Absent, Absent>>,
        expiry |-> <<0, 0, 0, 0, 0, 0, 0, 0>>,
        creation |-> <<0, 0, 0, 0, 0, 0, 0, 0>>],
       [version |-> <<0, 0, 0, 0>>, flags |-> <<1, 0, 0, 0>>,
        fields |-> <<Absent, Str(<<110>>), AtEnd, Absent, Absent, Absent>>,
        expiry |-> <<0, 0, 0, 0, 0, 0, 0, 0>>,
        creation |-> <<0, 0, 0, 0, 0, 0, 0, 0>>],
       [version |-> <<0, 0, 0, 128>>, flags |-> <<255, 255, 255, 255>>,
        fields |-> <<Str(<<100>>), Str(<<110, 34>>), Str(<<47>>),
                     Str(<<10, 1>>), Str(<<99>>), Str(<<117>>)>>,
        expiry |-> <<0, 0, 0, 0, 0, 0, 240, 63>>,
        creation |-> <<0, 0, 0, 0, 0, 0, 0, 64>>] >>

\* The opaque property list at the end of the file.
Plist == <<98, 112>>

StrBytes(f) == IF f.kind = "str" THEN f.s \o <<0>> ELSE <<>>

RECURSIVE TableLen(_, _)
TableLen(fs, i) == IF i = 0 THEN 0 ELSE TableLen(fs, i - 1) + Len(StrBytes(fs[i]))

RecordSize(sh) == CookieHeaderSize + TableLen(sh.fields, 6)

FieldOffset(sh, i) ==
    CASE sh.fields[i].kind = "absent" -> 0
      [] sh.fields[i].kind = "str" -> CookieHeaderSize + TableLen(sh.fields, i - 1)
      [] sh.fields[i].kind = "end" -> RecordSize(sh)

CookieBytes(sh) ==
    LE32(RecordSize(sh)) \o sh.version \o sh.flags \o LE32(0)
        \o Flatten([i \in 1..6 |-> LE32(FieldOffset(sh, i))])
        \o sh.expiry \o sh.creation
        \o Flatten([i \in 1..6 |-> StrBytes(sh.fields[i])])

RECURSIVE SumSizes(_, _)
SumSizes(cs, i) == IF i = 0 THEN 0 ELSE SumSizes(cs, i - 1) + RecordSize(cs[i])

PageHeaderSize(n) == 4 + 4 + 4 * n + 4

PageBytes(cs) ==
    COOKIE_PAGE_TAG \o LE32(Len(cs))
        \o Flatten([i \in 1..Len(cs) |-> LE32(PageHeaderSize(Len(cs)) + SumSizes(cs, i - 1))])
        \o COOKIE_PAGE_HEADER_END
        \o Flatten([i \in 1..Len(cs) |-> CookieBytes(cs[i])])

\* The sum the writer of a file stores: the first byte of every four.
RECURSIVE LaneSum(_, _)
LaneSum(page, i) == IF i > Len(page) THEN 0 ELSE page[i] + LaneSum(page, i + 4)

RECURSIVE Total(_, _)
Total(ns, i) == IF i = 0 THEN 0 ELSE Total(ns, i - 1) + ns[i]

FileBytes(pages) ==
    LET pbs == [i \in 1..Len(pages) |-> PageBytes(pages[i])]
    IN  BINARY_COOKIE_MAGIC \o BE32(Len(pages))
            \o Flatten([i \in 1..Len(pages) |-> BE32(Len(pbs[i]))])
            \o Flatten(pbs)
            \o BE32(Total([i \in 1..Len(pages) |-> LaneSum(pbs[i], 1)], Len(pages)))
            \o BINARY_COOKIE_FOOTER \o BE32(Len(Plist)) \o Plist

\* Page i of the file with counts[i] cookies on page i, the cookies of the
\* file taking the shapes in turn.
PagesOf(counts) ==
    [i \in 1..Len(counts) |->
        [j \in 1..counts[i] |->
            Shapes[((Total(counts, i - 1) + j - 1) % Len(Shapes)) + 1]]]

\* The cookie counts of the pages of the files explored.
CountsSet ==
    {counts \in UNION {[1..n -> 0..MaxCookies] : n \in 0..MaxPages} :
        Total(counts, Len(counts)) <= MaxTotal}

\* The values a single byte is overwritten with: zero, a digit, all ones.
MutVals == {0, 48, 255}

\* The bytes memory may hold past the end of the mapping, before a zero.
Beyond == {<<>>, <<65>>}

VARIABLES
    input,             \* how the buffer was made: the file, its layout, the change applied
    data,              \* the mapped bytes; length is their number
    pc,                \* "start", "page", "cookie", "done" (returned), "killed" (signal)
    exitCode,          \* the value returned, once pc = "done"
    err,               \* the diagnostic written to stderr
    out,               \* what has been written to stdout
    checkSum, pageCount, pageIdx, pageSizeBase, pageBase, first,
    pageEnd, cookieCount, cookieIdx, cookieOffsetBase,
    cookie,            \* the locals of the cookie block: cookieBase .. cookieEnd
    lastObject,        \* the tokens of the object written for cookie, <<>> if none was
    readMax,           \* the highest index of data read so far (-1: none)
    scanMax            \* the highest index read by the string loops run for cookie (-1: none)

vars == <<input, data, pc, exitCode, err, out, checkSum, pageCount, pageIdx,
          pageSizeBase, pageBase, first, pageEnd, cookieCount, cookieIdx,
          cookieOffsetBase, cookie, lastObject, readMax, scanMax>>

length == Len(data)

NoCookie ==
    [cookieBase |-> 0, cookieSize |-> <<0, 0>>, version |-> <<0, 0>>,
     flags |-> <<0, 0>>, hasPort |-> <<0, 0>>, domain |-> <<0, 0>>,
     name |-> <<0, 0>>, path |-> <<0, 0>>, value |-> <<0, 0>>,
     comment |-> <<0, 0>>, commentUrl |-> <<0, 0>>,
     expiry |-> <<>>, creation |-> <<>>, cookieEnd |-> 0]

\* The state at the call of printCookiesFromMmap(length, data).
Entry(in, d) ==
    /\ input = in
    /\ data = d
    /\ pc = "start"
    /\ exitCode = EXIT_CODE_OK
    /\ err = ""
    /\ out = <<>>
    /\ checkSum = <<0, 0>>
    /\ pageCount = <<0, 0>>
    /\ pageIdx = 0
    /\ pageSizeBase = 0
    /\ pageBase = 0
    /\ first = 1
    /\ pageEnd = 0
    /\ cookieCount = <<0, 0>>
    /\ cookieIdx = 0
    /\ cookieOffsetBase = 0
    /\ cookie = NoCookie
    /\ lastObject = <<>>
    /\ readMax = -1
    /\ scanMax = -1

\* The files: every split of cookies over pages within the bounds.
Files == [counts \in CountsSet |-> FileBytes(PagesOf(counts))]

\* Of the file F with these cookie counts: its length, the number of its cookies, the index of its
\* footer, and the indices of the bytes of the file magic, the page tags, the
\* page header terminators and the footer.
LayoutOf(counts, F) ==
    LET pages == PagesOf(counts)
        sizes == [j \in 1..Len(pages) |->
                     PageHeaderSize(Len(pages[j])) + SumSizes(pages[j], Len(pages[j]))]
        start(i) == 8 + 4 * Len(pages) + Total(sizes, i - 1)
        footer == Len(F) - Len(Plist) - 8
    IN  [len |-> Len(F),
         total |-> Total(counts, Len(counts)),
         footer |-> footer,
         start |-> [i \in 1..Len(pages) |-> start(i)],
         magic |-> (0..3)
                   \cup UNION {start(i)..(start(i) + 3) : i \in 1..Len(counts)}
                   \cup UNION {(start(i) + 8 + 4 * counts[i])..(start(i) + 11 + 4 * counts[i]) :
                                  i \in 1..Len(counts)}
                   \cup (footer..(footer + 3))]

\* The buffer is a file, a file cut short, or a file with one byte changed.
Init ==
    \E counts \in CountsSet :
        \E F \in {Files[counts]} :
            \E in0 \in {[counts |-> counts, kind |-> "none", pos |-> 0, val |-> 0,
                          layout |-> LayoutOf(counts, F)]} :
            \/ Entry(in0, F)
            \/ \E L \in 0..(Len(F) - 1) :
                 Entry([in0 EXCEPT !.kind = "trunc", !.pos = L], SubSeq(F, 1, L))
            \/ \E p \in 0..(Len(F) - 1) : \E v \in MutVals :
                 /\ v # F[p + 1]
                 /\ Entry([in0 EXCEPT !.kind = "set", !.pos = p, !.val = v],
                          [F EXCEPT ![p + 1] = v])

\* ------------------------------------------------------------------------
\* printCookiesFromMmap
\* ------------------------------------------------------------------------
\* fprintf(stderr, msg); return code;  rd is the highest index read on the way.
Return(code, msg, rd) ==
    /\ pc' = "done"
    /\ exitCode' = code
    /\ err' = msg
    /\ readMax' = Max(readMax, rd)
    /\ UNCHANGED <<input, data, out, checkSum, pageCount, pageIdx, pageSizeBase,
                   pageBase, first, pageEnd, cookieCount, cookieIdx, cookieOffsetBase>>

\* Lines 181-201: the file magic, the page count and the page-size table,
\* then the opening of the JSON document.
Header ==
    /\ pc = "start"
    /\ IF length < Len(BINARY_COOKIE_MAGIC) + SizeofU32
       THEN /\ Return(EXIT_CODE_BAD_EOF, "File too short, when checking magic and page count", -1)
            /\ UNCHANGED <<cookie, lastObject, scanMax>>
       ELSE IF ~memcmpEq(data, 0, BINARY_COOKIE_MAGIC)
       THEN /\ Return(EXIT_CODE_BAD_MAGIC, "Bad magic - is this a cookie file?", 3)
            /\ UNCHANGED <<cookie, lastObject, scanMax>>
       ELSE LET count == read32Hi(data, 4)
                base == 8 + Offset(count) * SizeofU32
            IN  IF length < base
                THEN /\ Return(EXIT_CODE_BAD_EOF, "File too short, when checking page sizes in header", 7)
                     /\ UNCHANGED <<cookie, lastObject, scanMax>>
                ELSE /\ pc' = "page"
                     /\ checkSum' = <<0, 0>>
                     /\ pageCount' = count
                     /\ pageSizeBase' = 8
                     /\ pageBase' = base
                     /\ first' = 1
                     /\ pageIdx' = 0
                     /\ out' = out \o emitJsonBeginObject \o emitJsonString(LitCookies, 0)
                                   \o emitJsonNameSeparator \o emitJsonBeginArray
                     /\ readMax' = Max(readMax, 7)
                     /\ UNCHANGED <<input, data, exitCode, err, pageEnd, cookieCount,
                                    cookieIdx, cookieOffsetBase, cookie, lastObject, scanMax>>

\* Lines 202-225: one turn of the page loop up to the cookie loop.
BeginPage ==
    /\ pc = "page"
    /\ pageIdx < Offset(pageCount)
    /\ LET pageSize == Offset(read32Hi(data, pageSizeBase))
           end == pageBase + pageSize
           rd0 == pageSizeBase + 3
           count == read32Lo(data, pageBase + 4)
           cookiePageHeaderEnd == pageBase + 8 + Offset(count) * SizeofU32
       IN  IF length < end
           THEN /\ Return(EXIT_CODE_BAD_EOF, "File too short, incomplete page %d", rd0)
                /\ UNCHANGED <<cookie, lastObject, scanMax>>
           ELSE IF pageSize < Len(COOKIE_PAGE_TAG) + SizeofU32
           THEN /\ Return(EXIT_CODE_BAD_PARSE, "Page %d too short for page tag and cookie count", rd0)
                /\ UNCHANGED <<cookie, lastObject, scanMax>>
           ELSE IF ~memcmpEq(data, pageBase, COOKIE_PAGE_TAG)
           THEN /\ Return(EXIT_CODE_BAD_MAGIC, "Bad page tag - is this a cookie file?",
                          Max(rd0, pageBase + 3))
                /\ UNCHANGED <<cookie, lastObject, scanMax>>
           ELSE IF end < cookiePageHeaderEnd + Len(COOKIE_PAGE_HEADER_END)
           THEN /\ Return(EXIT_CODE_BAD_PARSE, "Page %d too short for cookie offsets",
                          Max(rd0, pageBase + 7))
                /\ UNCHANGED <<cookie, lastObject, scanMax>>
           ELSE IF ~memcmpEq(data, cookiePageHeaderEnd, COOKIE_PAGE_HEADER_END)
           THEN /\ Return(EXIT_CODE_BAD_MAGIC, "Bad page header end - is this a cookie file?",
                          Max(rd0, cookiePageHeaderEnd + 3))
                /\ UNCHANGED <<cookie, lastObject, scanMax>>
           ELSE /\ pc' = "cookie"
                /\ pageSizeBase' = pageSizeBase + SizeofU32
                /\ pageEnd' = end
                /\ cookieCount' = count
                /\ cookieOffsetBase' = pageBase + 8
                /\ cookieIdx' = 0
                /\ readMax' = Max(readMax, Max(rd0, cookiePageHeaderEnd + 3))
                /\ UNCHANGED <<input, data, exitCode, err, out, checkSum, pageCount,
                               pageIdx, pageBase, first, cookie, lastObject, scanMax>>

\* The short cookie header reported as an end-of-file error.
CookieHeaderTooShortAsEOF ==
    [code |-> EXIT_CODE_BAD_EOF, msg |-> "Cookie %d in Page %d too short for cookie header"]

\* Lines 231-232
CookieHeaderTooShort ==
    [code |-> EXIT_CODE_BAD_PARSE, msg |-> "Cookie %d in Page %d too short for cookie header"]

\* Lines 235-248: the locals read from the cookie header at cookieBase.
ReadCookie(d, cookieBase) ==
    [cookieBase |-> cookieBase,
     cookieSize |-> read32Lo(d, cookieBase),
     version |-> read32Lo(d, cookieBase + 4),
     flags |-> read32Lo(d, cookieBase + 8),
     hasPort |-> read32Lo(d, cookieBase + 12),
     domain |-> read32Lo(d, cookieBase + 16),
     name |-> read32Lo(d, cookieBase + 20),
     path |-> read32Lo(d, cookieBase + 24),
     value |-> read32Lo(d, cookieBase + 28),
     comment |-> read32Lo(d, cookieBase + 32),
     commentUrl |-> read32Lo(d, cookieBase + 36),
     expiry |-> readDouble(d, cookieBase + 40),
     creation |-> readDouble(d, cookieBase + 48),
     cookieEnd |-> cookieBase + Offset(read32Lo(d, cookieBase))]

\* Lines 249-276: the diagnostic of the first check the cookie fails, "" if none.
CookieCheck(d, end, c) ==
    IF end < c.cookieEnd
    THEN "Cookie %d in Page %d has end past end of page"
    ELSE IF 0 # d[(c.cookieEnd - 1) + 1]
    THEN "Cookie %d in Page %d does not end with null terminated string"
    ELSE IF c.cookieEnd < c.cookieBase + Offset(c.domain)
    THEN "Cookie %d in Page %d domain out of range"
    ELSE IF c.cookieEnd < c.cookieBase + Offset(c.name)
    THEN "Cookie %d in Page %d name out of range"
    ELSE IF c.cookieEnd < c.cookieBase + Offset(c.path)
    THEN "Cookie %d in Page %d path out of range"
    ELSE IF c.cookieEnd < c.cookieBase + Offset(c.value)
    THEN "Cookie %d in Page %d value out of range"
    ELSE IF c.cookieEnd < c.cookieBase + Offset(c.comment)
    THEN "Cookie %d in Page %d comment out of range"
    ELSE IF c.cookieEnd < c.cookieBase + Offset(c.commentUrl)
    THEN "Cookie %d in Page %d commentUrl out of range"
    ELSE ""

\* The six string fields in the order lines 287-292 emit them.
StringFields(c) ==
    << [present |-> c.domain, name |-> LitDomain, p |-> c.cookieBase + Offset(c.domain)],
       [present |-> c.name, name |-> LitName, p |-> c.cookieBase + Offset(c.name)],
       [present |-> c.path, name |-> LitPath, p |-> c.cookieBase + Offset(c.path)],
       [present |-> c.value, name |-> LitValue, p |-> c.cookieBase + Offset(c.value)],
       [present |-> c.comment, name |-> LitComment, p |-> c.cookieBase + Offset(c.comment)],
       [present |-> c.commentUrl, name |-> LitCommentUrl,
        p |-> c.cookieBase + Offset(c.commentUrl)] >>

\* Lines 287-292 for the first i fields.
RECURSIVE EmitStrings(_, _, _)
EmitStrings(mem, fs, i) ==
    IF i = 0 THEN <<>>
    ELSE EmitStrings(mem, fs, i - 1)
            \o emitJsonOptionalSeparatedNamedValueString(fs[i].present, fs[i].name, mem, fs[i].p)

\* Lines 283-295
EmitCookie(mem, c) ==
    emitJsonBeginObject
        \o emitJsonNamedValueInt(LitVersion, c.version)
        \o emitJsonSeparatedNamedValueInt(LitFlags, c.flags)
        \o EmitStrings(mem, StringFields(c), 6)
        \o emitJsonSeparatedNamedValueDouble(LitExpiry, c.expiry)
        \o emitJsonSeparatedNamedValueDouble(LitCreation, c.creation)
        \o emitJsonEndObject

\* The index at which the loop of emitJsonString started at p stops reading d:
\* the index of the first zero byte, or Len(d) when the loop runs off the end.
RECURSIVE ScanStop(_, _)
ScanStop(d, p) ==
    IF p >= Len(d) THEN Len(d) ELSE IF d[p + 1] = 0 THEN p ELSE ScanStop(d, p + 1)

\* The highest index read while emitting the strings of the first i fields.
RECURSIVE ScanHigh(_, _, _)
ScanHigh(mem, fs, i) ==
    IF i = 0 THEN -1
    ELSE Max(ScanHigh(mem, fs, i - 1),
             IF fs[i].present # <<0, 0>> THEN ScanStop(mem, fs[i].p) ELSE -1)

\* What has reached stdout when the read of data[length] by the string loop
\* of field i faults.
EmitUntilFault(d, c, i) ==
    LET fs == StringFields(c)
    IN  emitJsonBeginObject
            \o emitJsonNamedValueInt(LitVersion, c.version)
            \o emitJsonSeparatedNamedValueInt(LitFlags, c.flags)
            \o EmitStrings(d, fs, i - 1)
            \o emitJsonValueSeparator \o emitJsonString(fs[i].name, 0) \o emitJsonNameSeparator
            \o <<[k |-> "string, unfinished", b |-> EscapeAll(d, fs[i].p, Len(d) - fs[i].p)]>>

\* Lines 278-296: the cookie c has passed its checks and is written.  A
\* string loop that runs off the end of the mapping either finds there the
\* bytes beyond it, or faults.
WriteCookie(c, rd) ==
    \E fs \in {StringFields(c)} :
      \E faults \in {{i \in 1..6 : fs[i].present # <<0, 0>> /\ ScanStop(data, fs[i].p) = length}} :
        \/ \E beyond \in (IF faults = {} THEN {<<>>} ELSE Beyond) :
             \E mem \in {IF faults = {} THEN data ELSE data \o beyond \o <<0>>} :
               \E obj \in {EmitCookie(mem, c)}, high \in {ScanHigh(mem, fs, 6)} :
                 /\ pc' = "cookie"
                 /\ out' = out \o (IF first = 1 THEN <<>> ELSE emitJsonValueSeparator) \o obj
                 /\ first' = 0
                 /\ lastObject' = obj
                 /\ cookieIdx' = cookieIdx + 1
                 /\ cookieOffsetBase' = cookieOffsetBase + SizeofU32
                 /\ scanMax' = high
                 /\ readMax' = Max(readMax, Max(rd, high))
                 /\ UNCHANGED <<input, data, exitCode, err, checkSum, pageCount, pageIdx,
                                pageSizeBase, pageBase, pageEnd, cookieCount>>
        \/ /\ faults # {}
           /\ pc' = "killed"
           /\ out' = out \o (IF first = 1 THEN <<>> ELSE emitJsonValueSeparator)
                         \o EmitUntilFault(data, c, CHOOSE i \in faults : \A j \in faults : i <= j)
           /\ first' = 0
           /\ lastObject' = <<>>
           /\ scanMax' = length
           /\ readMax' = Max(readMax, Max(rd, length))
           /\ UNCHANGED <<input, data, exitCode, err, checkSum, pageCount, pageIdx,
                          pageSizeBase, pageBase, pageEnd, cookieCount, cookieIdx,
                          cookieOffsetBase>>

\* Lines 226-297: one turn of the cookie loop.
Cookie ==
    /\ pc = "cookie"
    /\ cookieIdx < Offset(cookieCount)
    /\ \E cookieBase \in {pageBase + Offset(read32Lo(data, cookieOffsetBase))} :
         IF length < cookieBase + CookieHeaderSize
         THEN /\ Return(CookieHeaderTooShort.code, CookieHeaderTooShort.msg, cookieOffsetBase + 3)
              /\ cookie' = [NoCookie EXCEPT !.cookieBase = cookieBase]
              /\ lastObject' = <<>>
              /\ scanMax' = -1
         ELSE \E c \in {ReadCookie(data, cookieBase)} :
                \E msg \in {CookieCheck(data, pageEnd, c)} :
                  \E rd \in {Max(cookieOffsetBase + 3,
                                 IF pageEnd < c.cookieEnd
                                 THEN cookieBase + CookieHeaderSize - 1
                                 ELSE Max(cookieBase + CookieHeaderSize - 1, c.cookieEnd - 1))} :
                    /\ cookie' = c
                    /\ IF msg # ""
                       THEN /\ Return(EXIT_CODE_BAD_PARSE, msg, rd)
                            /\ lastObject' = <<>>
                            /\ scanMax' = -1
                       ELSE WriteCookie(c, rd)

\* checkSum += byte, on 32 bits
AddByte(sum, byte) ==
    <<(sum[1] + (sum[2] + byte) \div 65536) % 65536, (sum[2] + byte) % 65536>>

\* A checksum over the first byte of every eight of the page.
RECURSIVE PageCheckSumEveryEighth(_, _, _, _)
PageCheckSumEveryEighth(sum, d, pageCursor, end) ==
    IF pageCursor < end
    THEN PageCheckSumEveryEighth(AddByte(sum, d[pageCursor + 1]), d,
                                 pageCursor + 2 * SizeofU32, end)
    ELSE sum

\* Lines 303-306: the first byte of every four of the page.
RECURSIVE PageCheckSum(_, _, _, _)
PageCheckSum(sum, d, pageCursor, end) ==
    IF pageCursor < end
    THEN PageCheckSum(AddByte(sum, d[pageCursor + 1]), d, pageCursor + SizeofU32, end)
    ELSE sum

\* Lines 300-308: the end of a turn of the page loop.
EndPage ==
    /\ pc = "cookie"
    /\ cookieIdx >= Offset(cookieCount)
    /\ pc' = "page"
    /\ checkSum' = PageCheckSum(checkSum, data, pageBase, pageEnd)
    /\ pageBase' = pageEnd
    /\ pageIdx' = pageIdx + 1
    /\ readMax' = Max(readMax, pageBase + SizeofU32 * ((pageEnd - pageBase - 1) \div SizeofU32))
    /\ UNCHANGED <<input, data, exitCode, err, out, pageCount, pageSizeBase, first,
                   pageEnd, cookieCount, cookieIdx, cookieOffsetBase, cookie,
                   lastObject, scanMax>>

\* A trailer check that does not compare the checksums.
TrailerResultNoChecksum(d, base, sum) ==
    IF Len(d) < base + SizeofU32 + Len(BINARY_COOKIE_FOOTER) + SizeofU32
    THEN [code |-> EXIT_CODE_BAD_EOF, rd |-> -1,
          msg |-> "File too short, for checksum, footer, and plist size"]
    ELSE IF ~memcmpEq(d, base + 4, BINARY_COOKIE_FOOTER)
    THEN [code |-> EXIT_CODE_BAD_MAGIC, rd |-> base + 7,
          msg |-> "Bad file footer - is this a cookie file?"]
    ELSE IF Len(d) # base + 8 + 4 + Offset(read32Hi(d, base + 8))
    THEN [code |-> EXIT_CODE_BAD_PARSE, rd |-> base + 11,
          msg |-> "File length and plist data length mismatch"]
    ELSE [code |-> EXIT_CODE_OK, rd |-> base + 11, msg |-> ""]

\* Lines 310-337: what the checks of the trailer at base decide.
TrailerResult(d, base, sum) ==
    IF Len(d) < base + SizeofU32 + Len(BINARY_COOKIE_FOOTER) + SizeofU32
    THEN [code |-> EXIT_CODE_BAD_EOF, rd |-> -1,
          msg |-> "File too short, for checksum, footer, and plist size"]
    ELSE IF read32Hi(d, base) # sum
    THEN [code |-> EXIT_CODE_BAD_PARSE, rd |-> base + 3, msg |-> "Bad file checksum"]
    ELSE IF ~memcmpEq(d, base + 4, BINARY_COOKIE_FOOTER)
    THEN [code |-> EXIT_CODE_BAD_MAGIC, rd |-> base + 7,
          msg |-> "Bad file footer - is this a cookie file?"]
    ELSE IF Len(d) # base + 8 + 4 + Offset(read32Hi(d, base + 8))
    THEN [code |-> EXIT_CODE_BAD_PARSE, rd |-> base + 11,
          msg |-> "File length and plist data length mismatch"]
    ELSE [code |-> EXIT_CODE_OK, rd |-> base + 11, msg |-> ""]

\* Lines 310-337: after the page loop.
Trailer ==
    /\ pc = "page"
    /\ pageIdx >= Offset(pageCount)
    /\ LET r == TrailerResult(data, pageBase, checkSum)
       IN  /\ pc' = "done"
           /\ exitCode' = r.code
           /\ err' = r.msg
           /\ readMax' = Max(readMax, r.rd)
           /\ out' = IF r.code = EXIT_CODE_OK
                     THEN out \o emitJsonEndArray \o emitJsonEndObject
                     ELSE out
           /\ UNCHANGED <<input, data, checkSum, pageCount, pageIdx, pageSizeBase,
                          pageBase, first, pageEnd, cookieCount, cookieIdx,
                          cookieOffsetBase, cookie, lastObject, scanMax>>

Next == Header \/ BeginPage \/ Cookie \/ EndPage \/ Trailer

Spec == Init /\ [][Next]_vars

\* ------------------------------------------------------------------------
\* The layout of the file the buffer was made from
\* ------------------------------------------------------------------------
Layout == input.layout
CookieTotal == Layout.total
FooterOffset == Layout.footer
MagicPositions == Layout.magic

\* The file itself, or the file with a byte of its opaque property list changed.
ValidInput ==
    \/ input.kind = "none"
    \/ input.kind = "set" /\ input.pos >= Layout.len - Len(Plist)

Failed == pc = "done" /\ exitCode # EXIT_CODE_OK

\* The pointer the next turn of the cookie loop takes as cookieBase.
NextCookieBase == pageBase + Offset(read32Lo(data, cookieOffsetBase))
AtCookie == pc = "cookie" /\ cookieIdx < Offset(cookieCount)
AtTrailer == pc = "page" /\ pageIdx >= Offset(pageCount)

Returns(code) == pc' = "done" /\ exitCode' = code

\* ------------------------------------------------------------------------
\* C1: when decoding fails, nothing has been written to stdout.
\* ------------------------------------------------------------------------
C1_NothingWrittenOnFailure == Failed => out = <<>>

\* ------------------------------------------------------------------------
\* C2: every index the decoder reads lies inside the buffer.
\* ------------------------------------------------------------------------
C2_ReadsInsideBuffer == readMax < length

\* ------------------------------------------------------------------------
\* C3: a saved checksum that differs from the running one fails the decode
\* with an outcome of its own, different from those of TooShort, BadMagic and
\* BadParse.
\* ------------------------------------------------------------------------
ChecksumDiffers ==
    /\ AtTrailer
    /\ length >= pageBase + 12
    /\ read32Hi(data, pageBase) # checkSum

C4_TruncationIsTooShort ==
    (input.kind = "trunc" /\ input.pos < FooterOffset) =>
        /\ readMax < length
        /\ pc # "killed"
        /\ pc = "done" => exitCode = EXIT_CODE_BAD_EOF

\* ------------------------------------------------------------------------
\* C5: a valid file decodes successfully, and the cookies array holds as many
\* objects as the pages' cookie counts add up to.
\* ------------------------------------------------------------------------
CountObjects(o) == Cardinality({i \in 1..Len(o) : o[i].k = "{"}) - 1

C5_ValidFileDecodes ==
    ValidInput =>
        /\ pc # "killed"
        /\ pc = "done" =>
              /\ exitCode = EXIT_CODE_OK
              /\ err = ""
              /\ Len(out) >= 6
              /\ SubSeq(out, 1, 4) = <<Punct("{"), [k |-> "string", b |-> SubSeq(LitCookies, 1, 7)],
                                       Punct(":"), Punct("[")>>
              /\ SubSeq(out, Len(out) - 1, Len(out)) = <<Punct("]"), Punct("}")>>
              /\ CountObjects(out) = CookieTotal
              /\ Cardinality({i \in 1..Len(out) : out[i].k = "}"}) - 1 = CookieTotal

C5_Witness ==
    /\ input.kind = "none"
    /\ Len(input.counts) = 2
    /\ input.counts[1] = 2
    /\ input.counts[2] >= 1
    /\ pc = "done"
    /\ exitCode = EXIT_CODE_OK
    /\ CountObjects(out) >= 3

\* ------------------------------------------------------------------------
\* C6: the keys of an emitted object are version, flags, the string fields
\* whose offset is not zero, in the order domain, name, path, value, comment,
\* commentUrl, then expiry, creation; the values are numbers and strings,
\* never null.
\* ------------------------------------------------------------------------
Key(lit) == [k |-> "string", b |-> SubSeq(lit, 1, Len(lit) - 1)]

IfSet(offset, x) == IF offset # <<0, 0>> THEN <<x>> ELSE <<>>

ExpectedKeys(c) ==
    <<Key(LitVersion), Key(LitFlags)>>
        \o IfSet(c.domain, Key(LitDomain)) \o IfSet(c.name, Key(LitName))
        \o IfSet(c.path, Key(LitPath)) \o IfSet(c.value, Key(LitValue))
        \o IfSet(c.comment, Key(LitComment)) \o IfSet(c.commentUrl, Key(LitCommentUrl))
        \o <<Key(LitExpiry), Key(LitCreation)>>

ExpectedKinds(c) ==
    <<"int", "int">>
        \o IfSet(c.domain, "string") \o IfSet(c.name, "string")
        \o IfSet(c.path, "string") \o IfSet(c.value, "string")
        \o IfSet(c.comment, "string") \o IfSet(c.commentUrl, "string")
        \o <<"double", "double">>

\* obj is { key : value , ... key : value } with exactly the keys given, in
\* order, and values of the kinds given.
HasMembers(obj, keys, kinds) ==
    /\ Len(obj) = 4 * Len(keys) + 1
    /\ obj[1] = Punct("{")
    /\ \A j \in 1..Len(keys) :
          /\ obj[4 * j - 2] = keys[j]
          /\ obj[4 * j - 1] = Punct(":")
          /\ obj[4 * j].k = kinds[j]
          /\ obj[4 * j + 1] = Punct(IF j < Len(keys) THEN "," ELSE "}")

C6_KeysInOrder ==
    lastObject # <<>> => HasMembers(lastObject, ExpectedKeys(cookie), ExpectedKinds(cookie))

C6_Witness ==
    /\ lastObject # <<>>
    /\ cookie.domain # <<0, 0>>
    /\ cookie.path = <<0, 0>>
    /\ cookie.value # <<0, 0>>
    /\ cookie.commentUrl = <<0, 0>>
    /\ Len(lastObject) = 4 * 7 + 1

\* ------------------------------------------------------------------------
\* C7: changing one byte of the file magic, of a page tag, of a page header
\* terminator or of the footer of a well-formed file makes decoding fail
\* with BadMagic.
\* ------------------------------------------------------------------------
MagicByteChanged == input.kind = "set" /\ input.pos \in MagicPositions

C7_MagicByteIsBadMagic ==
    MagicByteChanged =>
        /\ pc # "killed"
        /\ pc = "done" => exitCode = EXIT_CODE_BAD_MAGIC

C7_Witness ==
    /\ MagicByteChanged
    /\ Len(input.counts) = 2
    /\ input.pos >= Layout.start[2] + 3
    /\ input.pos < FooterOffset
    /\ pc = "done"
    /\ exitCode = EXIT_CODE_BAD_MAGIC
    /\ pageIdx = 1

\* ------------------------------------------------------------------------
\* C8: a buffer that ends before a required region fails with TooShort; in
\* particular a cookie with fewer than 48 bytes of buffer at its start fails
\* with TooShort and not with BadParse.
\* ------------------------------------------------------------------------
C8_ShortCookieHeaderIsTooShort ==
    [][(AtCookie /\ length < NextCookieBase + 48) => Returns(EXIT_CODE_BAD_EOF)]_vars

\* C8, as amended: a buffer that ends before the 8-byte file header, the
\* page-size table, the declared end of a page or the 12-byte trailer fails
\* with TooShort; a cookie with fewer than 56 bytes (ten 32-bit and two
\* 64-bit fields) of buffer at its start, or whose declared extent ends past
\* the buffer, fails with BadParse.
C8_TooShortClasses ==
    [][/\ (pc = "start" /\ length < 8) => Returns(EXIT_CODE_BAD_EOF)
       /\ (/\ pc = "start"
           /\ length >= 8
           /\ Slice(data, 0, 4) = BINARY_COOKIE_MAGIC
           /\ length < 8 + 4 * Offset(read32Hi(data, 4))) => Returns(EXIT_CODE_BAD_EOF)
       /\ (/\ pc = "page"
           /\ pageIdx < Offset(pageCount)
           /\ length < pageBase + Offset(read32Hi(data, pageSizeBase)))
              => Returns(EXIT_CODE_BAD_EOF)
       /\ (AtTrailer /\ length < pageBase + 12) => Returns(EXIT_CODE_BAD_EOF)
       /\ (AtCookie /\ length < NextCookieBase + 56) => Returns(EXIT_CODE_BAD_PARSE)
       /\ (/\ AtCookie
           /\ length >= NextCookieBase + 56
           /\ length < NextCookieBase + Offset(read32Lo(data, NextCookieBase)))
              => Returns(EXIT_CODE_BAD_PARSE)]_vars

\* A cookie with at least 48 and fewer than 56 bytes of buffer at its start.
C8_Witness ==
    /\ pc = "done"
    /\ err = "Cookie %d in Page %d too short for cookie header"
    /\ exitCode = EXIT_CODE_BAD_PARSE
    /\ length - cookie.cookieBase >= 48
    /\ length - cookie.cookieBase < 56

\* ------------------------------------------------------------------------
\* C9: the loop that emits a string field of a validated cookie never reads
\* a byte at or beyond cookieEnd.
\* ------------------------------------------------------------------------
C9_ScanStaysInsideRecord == scanMax # -1 => scanMax < cookie.cookieEnd

\* ------------------------------------------------------------------------
\* C10: the numbers written for version and flags are the unsigned 32-bit
\* values of the cookie header, in decimal.
\* ------------------------------------------------------------------------
C10_VersionAndFlagsUnsigned ==
    lastObject # <<>> =>
        /\ lastObject[4] = [k |-> "int", b |-> DecDigits(cookie.version)]
        /\ lastObject[8] = [k |-> "int", b |-> DecDigits(cookie.flags)]

====
